---- MODULE Spec2Model ----
(***************************************************************************)
(* A model of objfcn.c, the in-process loader of relocatable ELF objects,  *)
(* in its default build: x86-64, OBJFCN_SPLIT_ALLOC 0 (one shared arena),  *)
(* OBJFCN_LOG 0.                                                           *)
(*                                                                         *)
(* Pointers into the arena and small integers are TLA+ integers.  64-bit   *)
(* words that relocations patch are sequences of four 16-bit limbs, least  *)
(* significant first, so that the arithmetic keeps its width.              *)
(***************************************************************************)
EXTENDS Integers, Sequences, FiniteSets, TLC

VARIABLES
  code,        \* static char* code: NULL, MAP_FAILED or the arena's base
  code_used,   \* static size_t code_used: the bump offset
  obj_error,   \* the string objerror() reads at obj_error
  oob,         \* bytes the last sprintf wrote past the end of obj_error[256]
  heap,        \* the malloc blocks that are live
  handles,     \* the obj_handle of every successful objopen, in call order
  nopen,       \* number of objopen calls so far
  ld,          \* the locals of the last load_object / relocate run
  last,        \* the last API call and what it returned
  crashed      \* the process was killed by a signal

vars == <<code, code_used, obj_error, oob, heap, handles, nopen, ld, last, crashed>>

(***************************** bounds **************************************)

\* objopen calls per behaviour
MaxOpens == 2

\* length of the long file name and of the long symbol name
LongLen == 300

(************************** program constants ******************************)

NULL == 0

MAP_FAILED == -1

\* sizeof obj_error
ErrSize == 256

\* the size of the shared mapping
CodeSize == 1024 * 1024 * 1024

\* alignment requested after each section
SecAlign == 16

\* bytes of a PLT32 trampoline, 6 + 8
PltSize == 14

\* bytes of a REX_GOTPCRELX slot
GotSize == 8

\* The addresses mmap may return for the arena (page aligned).  Addresses are
\* kept below 2^31; only their alignment and order matter to the loader.
MmapBases == {1048576}

(************************** machine arithmetic *****************************)

Limb == 2^16

align_down(v, align) == v - (v % align)

align_up(v, align) == align_down(v + align - 1, align)

\* a non-negative integer below 2^31 as a 64-bit word
U64(n) == <<n % Limb, n \div Limb, 0, 0>>

Zero64 == <<0, 0, 0, 0>>

\* a + b mod 2^64
Add64(a, b) ==
  LET s1 == a[1] + b[1]
      s2 == a[2] + b[2] + (s1 \div Limb)
      s3 == a[3] + b[3] + (s2 \div Limb)
      s4 == a[4] + b[4] + (s3 \div Limb)
  IN  <<s1 % Limb, s2 % Limb, s3 % Limb, s4 % Limb>>

\* -a mod 2^64
Neg64(a) ==
  Add64(<<Limb - 1 - a[1], Limb - 1 - a[2], Limb - 1 - a[3], Limb - 1 - a[4]>>,
        <<1, 0, 0, 0>>)

Sub64(a, b) == Add64(a, Neg64(b))

\* the conversion of a 64-bit value to int and back to 64 bits: the low 32
\* bits, sign-extended
IntOf64(a) ==
  LET s == IF a[2] >= Limb \div 2 THEN Limb - 1 ELSE 0
  IN  <<a[1], a[2], s, s>>

\* *(uint32_t* )target += v: the low four bytes change, the high four stay
AddLow32(word, v) ==
  LET s == Add64(word, v) IN <<s[1], s[2], word[3], word[4]>>

\* the string s repeated n times
RECURSIVE Rep(_, _)
Rep(s, n) ==
  IF n = 0 THEN ""
  ELSE LET h == Rep(s, n \div 2)
       IN  IF n % 2 = 0 THEN h \o h ELSE h \o h \o s

(****************************** the input files ****************************)

\* relocation types of <elf.h> for x86-64
R_64 == 1

R_PC32 == 2

R_PLT32 == 4

R_X86_64_REX_GOTPCRELX == 42

\* a relocation type relocate has no case for (R_X86_64_GOTPCRELX)
R_OTHER == R_X86_64_REX_GOTPCRELX - 1

\* special section indices of <elf.h>
SHN_UNDEF == 0

SHN_ABS == 2^16 - 15

SHN_COMMON == 2^16 - 14

\* the value printed by "%d" for ELF_ST_TYPE
StTypeNum(t) ==
  CASE t = "STT_NOTYPE"  -> 0
    [] t = "STT_OBJECT"  -> 1
    [] t = "STT_FUNC"    -> 2
    [] t = "STT_SECTION" -> 3
    [] t = "STT_FILE"    -> 4
    [] OTHER             -> 6

\* a section of 512 MiB
BigSize == 2^29

LongSym == Rep("s", LongLen)

LongPath == Rep("d", LongLen - 2) \o ".o"

Paths == {"a.o", LongPath}

\* 64-bit addends of Elf64_Rela records: 0, -4, 5, 2^32, 2^31, -2^32 - 4
Addends ==
  { Zero64, Neg64(U64(4)), U64(5), <<0, 0, 1, 0>>, <<0, 2^15, 0, 0>>,
    Neg64(<<4, 0, 1, 0>>) }

\* the eight bytes found at a relocation's target before it is applied
OldWords == { Zero64, <<2^16 - 4, 2^16 - 1, 2^16 - 1, 2^16 - 1>> }

Sym(name, type, shndx, value) ==
  [st_name |-> name, st_type |-> type, st_shndx |-> shndx, st_value |-> value]

Rel(offset, sym, type, addend, word) ==
  [r_offset |-> offset, r_sym |-> sym, r_type |-> type, r_addend |-> addend,
   word |-> word]

Shdr(type, alloc, size, link, info, rels) ==
  [sh_type |-> type, alloc |-> alloc, sh_size |-> size, sh_link |-> link,
   sh_info |-> info, rels |-> rels]

\* symbols 0..6 of every object's symbol table; symbols of type function or
\* data object follow them
SymPrefix(u) ==
  << Sym("", "STT_NOTYPE", SHN_UNDEF, 0),
     Sym("", "STT_SECTION", 1, 0),
     Sym("strlen", "STT_NOTYPE", SHN_UNDEF, 0),
     Sym("totally_unknown_sym", "STT_NOTYPE", SHN_UNDEF, 0),
     Sym(u, "STT_NOTYPE", SHN_UNDEF, 0),
     Sym("label", "STT_NOTYPE", 1, 4),
     Sym("a.c", "STT_FILE", SHN_ABS, 0) >>

\* the function and data-object symbols of an object whose .text has ts bytes
SymTails(ts) ==
  { << >>,
    << Sym("add", "STT_FUNC", 1, 0), Sym("get", "STT_FUNC", 1, 8),
       Sym("counter", "STT_OBJECT", 2, 0) >>,
    << Sym("add", "STT_FUNC", 1, 0), Sym("add", "STT_FUNC", 1, 8) >>,
    << Sym("add", "STT_FUNC", 1, 0), Sym("end", "STT_OBJECT", 1, ts) >>,
    << Sym("add", "STT_FUNC", 1, 0), Sym("ext", "STT_FUNC", SHN_UNDEF, 4) >>,
    << Sym("add", "STT_FUNC", 1, 0), Sym("note", "STT_OBJECT", 3, 4) >>,
    << Sym("add", "STT_FUNC", 1, 0), Sym("common", "STT_OBJECT", SHN_COMMON, 4) >> }

BaseTail ==
  << Sym("add", "STT_FUNC", 1, 0), Sym("get", "STT_FUNC", 1, 8),
     Sym("counter", "STT_OBJECT", 2, 0), Sym("add", "STT_FUNC", 1, 8) >>

\* the records of the relocation section of .text
RelLists ==
  { << >>,
    << Rel(0, 7, R_PC32, Neg64(U64(4)), Zero64) >>,
    << Rel(0, 2, R_PLT32, Neg64(U64(4)), Zero64) >>,
    << Rel(0, 2, R_X86_64_REX_GOTPCRELX, Neg64(U64(4)), Zero64) >>,
    << Rel(0, 2, R_PLT32, Neg64(U64(4)), Zero64),
       Rel(8, 5, R_PC32, Zero64, Zero64) >>,
    << Rel(0, 2, R_PLT32, Neg64(U64(4)), Zero64),
       Rel(8, 3, R_PLT32, Neg64(U64(4)), Zero64) >>,
    << Rel(0, 6, R_64, Zero64, Zero64) >>,
    << Rel(0, 1, R_OTHER, Zero64, Zero64) >> }
  \cup { << Rel(0, 1, R_64, a, w) >> : a \in Addends, w \in OldWords }

\* An object file: section 0 is the null section, 1 is .text, 2 is .bss, 3 is
\* .comment (not allocatable), 4 holds the relocations of .text, 5 and 6 are
\* the symbol table and its string table, in either order.
Elf4(symtab_first, ts, bs, u, tail, rel_type, rels) ==
  [ kind  |-> "elf",
    shdrs |-> << Shdr("SHT_NULL", FALSE, 0, 0, 0, << >>),
                 Shdr("SHT_PROGBITS", TRUE, ts, 0, 0, << >>),
                 Shdr("SHT_NOBITS", TRUE, bs, 0, 0, << >>),
                 Shdr("SHT_PROGBITS", FALSE, 16, 0, 0, << >>),
                 Shdr(rel_type, FALSE, 0, IF symtab_first THEN 5 ELSE 6, 1, rels),
                 IF symtab_first
                   THEN Shdr("SHT_SYMTAB", FALSE, 0, 6, 0, << >>)
                   ELSE Shdr("SHT_STRTAB", FALSE, 0, 0, 0, << >>),
                 IF symtab_first
                   THEN Shdr("SHT_STRTAB", FALSE, 0, 0, 0, << >>)
                   ELSE Shdr("SHT_SYMTAB", FALSE, 0, 5, 0, << >>) >>,
    syms  |-> SymPrefix(u) \o tail ]

Elf(symtab_first, ts, bs, tail, rel_type, rels) ==
  Elf4(symtab_first, ts, bs, "puts", tail, rel_type, rels)

NotElf(kind) == [kind |-> kind, shdrs |-> << >>, syms |-> << >>]

\* What a path can name when objopen is called: nothing, a FIFO, a directory,
\* an empty file, a file that is not ELF, or an object file.
Files ==
  { NotElf(k) : k \in {"missing", "fifo", "dir", "empty", "text"} }
  \cup { Elf(TRUE, 16, 8, t, "SHT_RELA", << >>) : t \in SymTails(16) }
  \cup { Elf(TRUE, 16, 8, BaseTail, "SHT_RELA", r) : r \in RelLists }
  \cup { Elf4(TRUE, 16, 8, LongSym, BaseTail, "SHT_RELA",
                << Rel(0, 4, R_PC32, Zero64, Zero64) >>) }
  \cup { Elf(TRUE, 16, 8, BaseTail, "SHT_REL", << Rel(0, 1, R_64, a, Zero64) >>) :
           a \in { U64(5) } }
  \cup { Elf(FALSE, 16, 8, t, "SHT_RELA", r) :
           t \in { << >>, BaseTail },
           r \in { << >>, << Rel(0, 2, R_PLT32, Neg64(U64(4)), Zero64) >> } }
  \cup { Elf(TRUE, ts, bs, << Sym("add", "STT_FUNC", 1, 0),
                              Sym("end", "STT_OBJECT", 1, ts) >>, "SHT_RELA", r) :
           ts \in {0, 24}, bs \in {0, BigSize},
           r \in { << >>, << Rel(0, 2, R_PLT32, Neg64(U64(4)), Zero64) >> } }

\* The files of the runs with several objopen calls: a missing and an empty
\* file, an object without relocations, one that needs a trampoline, one whose
\* second relocation names a symbol the host does not have, one with a symbol
\* at the end of a .bss of 16 bytes, and one with 512 MiB of .bss.
LifeFiles ==
  { NotElf("missing"), NotElf("empty"),
    Elf(TRUE, 16, 8, BaseTail, "SHT_RELA", << >>),
    Elf(TRUE, 16, 8, BaseTail, "SHT_RELA",
        << Rel(0, 2, R_PLT32, Neg64(U64(4)), Zero64) >>),
    Elf(TRUE, 16, 8, BaseTail, "SHT_RELA",
        << Rel(0, 2, R_PLT32, Neg64(U64(4)), Zero64),
           Rel(8, 3, R_PLT32, Neg64(U64(4)), Zero64) >>),
    Elf(TRUE, 16, 16, << Sym("add", "STT_FUNC", 1, 0), Sym("end", "STT_OBJECT", 2, 16) >>,
        "SHT_RELA", << >>),
    Elf(TRUE, 24, BigSize, << Sym("add", "STT_FUNC", 1, 0),
                              Sym("end", "STT_OBJECT", 1, 24) >>,
        "SHT_RELA", << Rel(0, 2, R_PLT32, Neg64(U64(4)), Zero64) >>) }

\* the host resolver, dlsym(RTLD_DEFAULT, name): an address, or NULL
dlsym(name) ==
  IF name = "strlen" THEN <<2^12, 2^15 + 7, 2^15 - 1, 0>> ELSE Zero64

(******************************* the arena *********************************)

\* alloc_code: the address handed out and the new bump offset
alloc_code(base, used, size) == [r |-> base + used, used |-> used + size]

\* align_code
align_code(used, align) == align_up(used, align)

(****************************** the error slot *****************************)

\* sprintf(obj_error, ...): the bytes written, terminator included, and how
\* many of them fall behind the array
sprintf(msg) ==
  [msg |-> msg,
   oob |-> IF Len(msg) + 1 > ErrSize THEN Len(msg) + 1 - ErrSize ELSE 0]

(****************************** load_object ********************************)

IsDefined(t) == t \in {"STT_OBJECT", "STT_FUNC"}

\* the first loop of load_object: symtab, strtab_index and strtab after
\* sections 0 .. i-1 were looked at (-1 stands for NULL and for no index)
RECURSIVE find_tables(_, _)
find_tables(shdrs, i) ==
  IF i = 0
    THEN [symtab |-> -1, strtab_index |-> -1, strtab |-> -1]
    ELSE LET p  == find_tables(shdrs, i - 1)
             sh == shdrs[i]
             q  == IF sh.sh_type = "SHT_SYMTAB"
                     THEN [p EXCEPT !.symtab = i - 1, !.strtab_index = sh.sh_link]
                     ELSE p
         IN  IF sh.sh_type = "SHT_STRTAB" /\ i - 1 = q.strtab_index
               THEN [q EXCEPT !.strtab = i - 1]
               ELSE q

\* the placement loop: addrs[] and code_used after sections 0 .. i-1
RECURSIVE place_sections(_, _, _, _)
place_sections(shdrs, i, base, used) ==
  IF i = 0
    THEN [addrs |-> << >>, used |-> used]
    ELSE LET p  == place_sections(shdrs, i - 1, base, used)
             sh == shdrs[i]
         IN  IF sh.alloc
               THEN LET a == alloc_code(base, p.used, sh.sh_size)
                    IN  [addrs |-> Append(p.addrs, a.r),
                         used  |-> align_code(a.used, SecAlign)]
               ELSE [addrs |-> Append(p.addrs, NULL), used |-> p.used]

\* addrs[shndx]; an index past the array reads whatever the stack holds
sec_addr(addrs, shndx, g) ==
  IF shndx < Len(addrs) THEN addrs[shndx + 1] ELSE g

\* char* addr = addrs[sym->st_shndx] + sym->st_value
sym_addr_of(sym, addrs, g) == sec_addr(addrs, sym.st_shndx, g) + sym.st_value

\* the records of obj->symbols, built by the two loops over the symbol table
symbol_index(syms, addrs, g) ==
  LET defs == SelectSeq(syms, LAMBDA y : IsDefined(y.st_type))
  IN  [k \in 1 .. Len(defs) |->
         [name |-> defs[k].st_name, addr |-> sym_addr_of(defs[k], addrs, g)]]

\* the symbol table after sym->st_value = (Elf_Addr)addr
rewrite_symtab(syms, addrs, g) ==
  [k \in 1 .. Len(syms) |->
     IF IsDefined(syms[k].st_type)
       THEN [syms[k] EXCEPT !.st_value = sym_addr_of(syms[k], addrs, g)]
       ELSE syms[k]]

(******************************** relocate *********************************)

\* the relocations relocate visits, in order, each with its target address
RECURSIVE reloc_work(_, _, _)
reloc_work(shdrs, i, addrs) ==
  IF i = 0
    THEN << >>
    ELSE LET sh == shdrs[i]
         IN  reloc_work(shdrs, i - 1, addrs) \o
             ( IF sh.sh_type \in {"SHT_REL", "SHT_RELA"} /\ shdrs[sh.sh_info + 1].alloc
                 THEN [j \in 1 .. Len(sh.rels) |->
                         [rel        |-> sh.rels[j],
                          has_addend |-> sh.sh_type = "SHT_RELA",
                          target     |-> addrs[sh.sh_info + 1] + sh.rels[j].r_offset]]
                 ELSE << >> )

\* int addend = has_addend ? rel->r_addend : 0, as it enters 64-bit sums
reloc_addend(w) == IF w.has_addend THEN IntOf64(w.rel.r_addend) ELSE Zero64

\* One relocation applied to the state st of relocate (code_used, the
\* patches made so far, the failure if any).  c holds the symbol table, the
\* placement map, the arena's base, whether strtab is a valid pointer, and
\* the value an out-of-bounds read of addrs yields.
relocate_one(w, st, c) ==
  LET sym    == c.syms[w.rel.r_sym + 1]
      t      == sym.st_type
      undef  == t = "STT_NOTYPE" /\ sym.st_shndx = SHN_UNDEF
      addend == reloc_addend(w)
      tgt    == U64(w.target)
      S      == CASE t = "STT_SECTION" -> U64(sec_addr(c.addrs, sym.st_shndx, c.g))
                  [] IsDefined(t)      -> U64(sym.st_value)
                  [] t = "STT_NOTYPE"  ->
                       IF undef THEN dlsym(sym.st_name)
                                ELSE U64(sec_addr(c.addrs, sym.st_shndx, c.g))
                  [] OTHER             -> Zero64
      patch(type, val, stub, used) ==
        [st EXCEPT !.used = used,
                   !.patches = Append(@, [r_type |-> type, target |-> w.target,
                                          rel |-> w.rel, has_addend |-> w.has_addend,
                                          val |-> val, stub |-> stub, dest |-> S])]
      ty     == w.rel.r_type
  IN  IF undef /\ ~c.strtab_ok
        THEN [st EXCEPT !.fail = "segv"]
      ELSE IF undef /\ S = Zero64
        THEN [st EXCEPT !.fail = "error",
                        !.err = "failed to resolve " \o sym.st_name]
      ELSE IF t \notin {"STT_SECTION", "STT_FUNC", "STT_OBJECT", "STT_NOTYPE"}
        THEN [st EXCEPT !.fail = "error",
                        !.err = "unsupported relocation sym " \o ToString(StTypeNum(t))]
      ELSE IF ty = R_64
        THEN patch(ty, Add64(w.rel.word, Add64(S, addend)), NULL, st.used)
      ELSE IF ty = R_PC32
        THEN patch(ty, AddLow32(w.rel.word, Add64(Sub64(S, tgt), addend)),
                   NULL, st.used)
      ELSE IF ty = R_PLT32
        THEN LET a == alloc_code(c.base, st.used, PltSize)
             IN  patch(ty, AddLow32(w.rel.word, Add64(Sub64(U64(a.r), tgt), addend)),
                       a.r, a.used)
      ELSE IF ty = R_X86_64_REX_GOTPCRELX
        THEN LET a == alloc_code(c.base, st.used, GotSize)
             IN  patch(ty, AddLow32(w.rel.word, Add64(Sub64(U64(a.r), tgt), addend)),
                       a.r, a.used)
      ELSE [st EXCEPT !.fail = "error",
                      !.err = "Unknown reloc: " \o ToString(ty)]

\* relocate(..., 0): the first k relocations applied, stopping at a failure
RECURSIVE relocate(_, _, _, _)
relocate(work, k, used, c) ==
  IF k = 0
    THEN [used |-> used, patches |-> << >>, fail |-> "", err |-> ""]
    ELSE LET st == relocate(work, k - 1, used, c)
         IN  IF st.fail # "" THEN st ELSE relocate_one(work[k], st, c)

\* the locals of load_object when it did not run
NoLoad ==
  [ran |-> FALSE, symtab |-> -1, strtab_index |-> -1, strtab |-> -1,
   names_read |-> FALSE, addrs |-> << >>, patches |-> << >>]

\* a store of n bytes at p lands outside the mapping
past_arena(base, p, n) == n > 0 /\ (p < base \/ p + n > base + CodeSize)

\* load_object(obj, bin, filename) for the object `file`, the arena at `base`
\* with bump offset `used`.  oom names the malloc that fails, zero_null says
\* that malloc(0) returns NULL, g is what a read past addrs[] yields.
\*   ok: the return value; segv: a NULL or wild pointer was dereferenced;
\*   ub: addrs[] was read past its end or bytes were stored outside the
\*   mapping; blocks: the malloc blocks made.
load_object(file, base, used, oom, zero_null, g) ==
  LET shdrs  == file.shdrs
      tabs   == find_tables(shdrs, Len(shdrs))
      syms   == IF tabs.symtab = -1 THEN << >> ELSE file.syms
      pl     == place_sections(shdrs, Len(shdrs), base, used)
      index  == symbol_index(syms, pl.addrs, g)
      n      == Len(index)
      no_arr == oom = "symbols" \/ (n = 0 /\ zero_null)
      str_ok == tabs.strtab # -1
      segv1  == n > 0 /\ (no_arr \/ ~str_ok)
      work   == reloc_work(shdrs, Len(shdrs), pl.addrs)
      c      == [syms |-> rewrite_symtab(syms, pl.addrs, g), addrs |-> pl.addrs,
                 base |-> base, strtab_ok |-> str_ok, g |-> g]
      rs     == relocate(work, Len(work), pl.used, c)
      wild   == \E k \in 1 .. Len(syms) :
                  IsDefined(syms[k].st_type) /\ syms[k].st_shndx >= Len(shdrs)
      stores == \/ wild
                \/ \E i \in 1 .. Len(shdrs) :
                     /\ shdrs[i].alloc /\ shdrs[i].sh_type # "SHT_NOBITS"
                     /\ past_arena(base, pl.addrs[i], shdrs[i].sh_size)
                \/ /\ ~segv1
                   /\ \E k \in 1 .. Len(rs.patches) :
                        \/ past_arena(base, rs.patches[k].target, 4)
                        \/ /\ rs.patches[k].stub # NULL
                           /\ past_arena(base, rs.patches[k].stub, GotSize)
  IN  [ ok      |-> ~segv1 /\ rs.fail = "",
        segv    |-> segv1 \/ rs.fail = "segv",
        ub      |-> stores,
        used    |-> IF segv1 THEN pl.used ELSE rs.used,
        err     |-> IF segv1 THEN "" ELSE rs.err,
        symbols |-> IF segv1 THEN << >> ELSE index,
        blocks  |-> IF segv1 THEN {}
                    ELSE (IF no_arr THEN {} ELSE {<<"symbols", 0>>})
                         \cup {<<"name", k>> : k \in 1 .. n},
        ld      |-> [ran |-> TRUE, symtab |-> tabs.symtab,
                     strtab_index |-> tabs.strtab_index, strtab |-> tabs.strtab,
                     names_read |-> n > 0 \/ (~segv1 /\ \E k \in 1 .. Len(work) :
                                       LET y == c.syms[work[k].rel.r_sym + 1]
                                       IN  /\ y.st_type = "STT_NOTYPE"
                                           /\ y.st_shndx = SHN_UNDEF
                                           /\ k <= Len(rs.patches) + 1),
                     addrs |-> pl.addrs,
                     patches |-> IF segv1 THEN << >> ELSE rs.patches] ]

(******************************** read_file ********************************)

\* read_file(filename): whether a buffer is returned, the message written (""
\* when sprintf is not called) and whether fread was handed a NULL buffer
read_file(path, file, oom, zero_null) ==
  LET k == file.kind
  IN  CASE k = "missing" ->
             [bin |-> FALSE, ub |-> FALSE,
              err |-> "failed to open " \o path \o ": No such file or directory"]
        [] k = "fifo" ->
             [bin |-> FALSE, ub |-> FALSE, err |-> "fseek failed: Illegal seek"]
        [] k = "dir" ->
             [bin |-> FALSE, ub |-> FALSE, err |-> "fread failed: Is a directory"]
        [] k = "empty" ->
             [bin |-> ~(zero_null \/ oom = "bin"), ub |-> FALSE, err |-> ""]
        [] OTHER ->
             IF oom = "bin"
               THEN [bin |-> FALSE, ub |-> TRUE, err |-> "fread failed: Bad address"]
               ELSE [bin |-> TRUE, ub |-> FALSE, err |-> ""]

(********************************* objclose ********************************)

\* the blocks objclose(obj) frees: every symbols[i].name, and obj
objclose_frees(call, num_symbols) ==
  {<<call, "name", k>> : k \in 1 .. num_symbols} \cup {<<call, "obj", 0>>}

(********************************* objsym **********************************)

\* a scan that keeps looking after a match and returns the last one
RECURSIVE objsym_scan_last(_, _, _)
objsym_scan_last(symbols, symbol, i) ==
  IF i > Len(symbols) THEN NULL
  ELSE LET rest == objsym_scan_last(symbols, symbol, i + 1)
       IN  IF rest # NULL THEN rest
           ELSE IF symbols[i].name = symbol THEN symbols[i].addr ELSE NULL

\* the loop of objsym over records 1 .. n: the address of the first record
\* named `symbol`, NULL when there is none
RECURSIVE objsym_scan(_, _, _)
objsym_scan(symbols, symbol, i) ==
  IF i > Len(symbols) THEN NULL
  ELSE IF symbols[i].name = symbol THEN symbols[i].addr
  ELSE objsym_scan(symbols, symbol, i + 1)

objsym(obj, symbol) == objsym_scan(obj.symbols, symbol, 1)

(********************************* the API *********************************)

\* what a read past the end of addrs[] can yield
GarbagePtrs == {NULL, 1048576 + 64}

\* the malloc call that fails during an objopen, if any (strdup is taken to
\* succeed)
OomSites == {"none", "bin", "obj", "symbols"}

\* the names objsym is asked for
Names == {"add", "get", "counter", "end", "ext", "note", "common", "nosuch"}

NoCall == [op |-> "none", h |-> 0, name |-> "", addr |-> NULL, msg |-> ""]

Init ==
  /\ code = NULL
  /\ code_used = 0
  /\ obj_error = ""
  /\ oob = 0
  /\ heap = {}
  /\ handles = << >>
  /\ nopen = 0
  /\ ld = NoLoad
  /\ last = NoCall
  /\ crashed = FALSE

\* objopen(path, flags) returns NULL.  Undefined behaviour (ub, or a message
\* longer than the slot) either ends the process or lets the call return.
open_fails(c, used, wrote, msg, blocks, l, segv, ub) ==
  /\ code' = c
  /\ code_used' = used
  /\ obj_error' = IF wrote THEN sprintf(msg).msg ELSE obj_error
  /\ oob' = IF wrote THEN sprintf(msg).oob ELSE 0
  /\ heap' = heap \cup blocks
  /\ handles' = handles
  /\ nopen' = nopen + 1
  /\ ld' = l
  /\ last' = [NoCall EXCEPT !.op = "objopen"]
  /\ IF segv THEN crashed' = TRUE
     ELSE IF ub \/ (wrote /\ sprintf(msg).oob > 0) THEN crashed' \in BOOLEAN
     ELSE crashed' = FALSE

\* the objects with a function or data-object symbol whose section index is
\* past the section header table
wild_index(file) ==
  \E k \in 1 .. Len(file.syms) :
    IsDefined(file.syms[k].st_type) /\ file.syms[k].st_shndx >= Len(file.shdrs)

\* The inputs of objopen that can change what it does with `file`: the path
\* is used in messages about files that are missing or not ELF, malloc(0)
\* is called for an empty file and for an empty symbol index.
PathsFor(file) == IF file.kind \in {"missing", "empty", "text"} THEN Paths ELSE {"a.o"}

OomFor(file) ==
  CASE file.kind \in {"missing", "fifo", "dir"} -> {"none"}
    [] file.kind \in {"empty", "text"}        -> {"none", "bin", "obj"}
    [] OTHER                                  -> OomSites

ZeroFor(file) ==
  IF \/ file.kind = "empty"
     \/ file.kind = "elf" /\ \A k \in 1 .. Len(file.syms) : ~IsDefined(file.syms[k].st_type)
    THEN BOOLEAN ELSE {FALSE}

\* objopen(path, flags), the file system holding `file` at `path`.
\*   mm: what mmap returns if init() runs; oom, zero_null: the behaviour of
\*   malloc; g: the value of a read past addrs[].
ObjOpen(path, file, mm, oom, zero_null, g) ==
  /\ ~crashed
  /\ nopen < MaxOpens
  /\ code_used <= CodeSize
  /\ LET call == nopen + 1
         c    == IF code = NULL THEN mm ELSE code
         rf   == read_file(path, file, oom, zero_null)
     IN  IF c = MAP_FAILED
           THEN open_fails(c, code_used, code = NULL, "mmap failed", {}, NoLoad,
                           FALSE, FALSE)
         ELSE IF ~rf.bin /\ rf.ub
           THEN \* fread(NULL, 1, filesize, fp): it fails with EFAULT, or it stores
                \/ open_fails(c, code_used, TRUE, rf.err, {}, NoLoad, FALSE, FALSE)
                \/ open_fails(c, code_used, FALSE, "", {}, NoLoad, TRUE, FALSE)
         ELSE IF ~rf.bin
           THEN open_fails(c, code_used, rf.err # "", rf.err, {}, NoLoad, FALSE, FALSE)
         ELSE IF oom = "obj"
           THEN open_fails(c, code_used, TRUE, "malloc failed", {}, NoLoad,
                           FALSE, FALSE)
         ELSE IF file.kind = "empty"
           THEN \* memcmp reads four indeterminate bytes: they differ from the
                \* magic, or they match and a header is read behind the buffer
                \/ open_fails(c, code_used, TRUE, path \o " is not ELF", {}, NoLoad,
                              FALSE, FALSE)
                \/ open_fails(c, code_used, FALSE, "", {}, NoLoad, TRUE, FALSE)
         ELSE IF file.kind # "elf"
           THEN open_fails(c, code_used, TRUE, path \o " is not ELF", {}, NoLoad,
                           FALSE, FALSE)
         ELSE LET r      == load_object(file, c, code_used, oom, zero_null, g)
                  n      == Len(r.symbols)
                  blocks == {<<call, b[1], b[2]>> : b \in r.blocks}
                            \cup {<<call, "obj", 0>>}
              IN  IF r.ok
                    THEN /\ code' = c
                         /\ code_used' = r.used
                         /\ UNCHANGED obj_error
                         /\ oob' = 0
                         /\ heap' = heap \cup blocks
                         /\ handles' = Append(handles,
                              [call |-> call, live |-> TRUE, symbols |-> r.symbols,
                               num_symbols |-> n, lo |-> c + code_used,
                               hi |-> c + r.used, symtab |-> file.syms])
                         /\ nopen' = call
                         /\ ld' = r.ld
                         /\ last' = [NoCall EXCEPT !.op = "objopen",
                                                   !.h = Len(handles) + 1]
                         /\ IF r.ub THEN crashed' \in BOOLEAN ELSE crashed' = FALSE
                    ELSE open_fails(c, r.used, ~r.segv, r.err,
                                    IF r.segv THEN blocks
                                    ELSE blocks \ objclose_frees(call, n),
                                    r.ld, r.segv, r.ub)

\* objclose(handle) on a handle that objopen returned and that was not closed
ObjClose(h) ==
  /\ ~crashed
  /\ h \in 1 .. Len(handles)
  /\ handles[h].live
  /\ heap' = heap \ objclose_frees(handles[h].call, handles[h].num_symbols)
  /\ handles' = [handles EXCEPT ![h].live = FALSE]
  /\ last' = [NoCall EXCEPT !.op = "objclose", !.h = h]
  /\ UNCHANGED <<code, code_used, obj_error, oob, nopen, ld, crashed>>

\* objsym(handle, symbol) on a live handle
ObjSym(h, symbol) ==
  /\ ~crashed
  /\ h \in 1 .. Len(handles)
  /\ handles[h].live
  /\ last' = [NoCall EXCEPT !.op = "objsym", !.h = h, !.name = symbol,
                            !.addr = objsym(handles[h], symbol)]
  /\ UNCHANGED <<code, code_used, obj_error, oob, heap, handles, nopen, ld, crashed>>

\* objerror()
ObjError ==
  /\ ~crashed
  /\ last' = [NoCall EXCEPT !.op = "objerror", !.msg = obj_error]
  /\ UNCHANGED <<code, code_used, obj_error, oob, heap, handles, nopen, ld, crashed>>

\* objopen of one of the files F
Open(F) ==
  \E file \in F :
    \E path \in PathsFor(file), oom \in OomFor(file), zero_null \in ZeroFor(file),
       mm \in IF code = NULL THEN MmapBases \cup {MAP_FAILED} ELSE {code},
       g \in IF wild_index(file) THEN GarbagePtrs ELSE {NULL} :
      ObjOpen(path, file, mm, oom, zero_null, g)

OpenLife == Open(LifeFiles)

OpenFirst == nopen = 0 /\ Open(Files)

Close == \E h \in 1 .. MaxOpens : ObjClose(h)

Lookup == \E h \in 1 .. MaxOpens, symbol \in Names : ObjSym(h, symbol)

\* a process that calls objopen up to MaxOpens times
Next == OpenLife \/ Close \/ Lookup \/ ObjError

Spec == Init /\ [][Next]_vars

\* a process that calls objopen once, on any of the files
NextLoad == OpenFirst \/ Close \/ Lookup \/ ObjError

SpecLoad == Init /\ [][NextLoad]_vars

(******************************** the claims *******************************)

InArena(a) == code # MAP_FAILED /\ code <= a /\ a < code + CodeSize

\* C1: every non-null address objsym returns lies inside the arena,
\* arena.base <= s < arena.base + arena.capacity, whatever section index and
\* value the object's symbols carry.
C1_SymInArena ==
  (~crashed /\ last.op = "objsym" /\ last.addr # NULL) => InArena(last.addr)

\* C2: for two handles of two different successful opens, no address recorded
\* for one lies in the range of arena bytes allocated during the other's open.
C2_DisjointRanges ==
  \A h1, h2 \in 1 .. Len(handles) :
    h1 # h2 =>
      \A k \in 1 .. Len(handles[h1].symbols) :
        ~ ( /\ handles[h2].lo <= handles[h1].symbols[k].addr
            /\ handles[h1].symbols[k].addr < handles[h2].hi )

\* the symbols of type function or data object among the first i entries of a
\* symbol table, in table order
RECURSIVE DefinedSyms(_, _)
DefinedSyms(symtab, i) ==
  IF i = 0 THEN << >>
  ELSE IF symtab[i].st_type \in {"STT_FUNC", "STT_OBJECT"}
    THEN Append(DefinedSyms(symtab, i - 1), symtab[i])
    ELSE DefinedSyms(symtab, i - 1)

IndexMatchesSymtab(obj) ==
  LET defs == DefinedSyms(obj.symtab, Len(obj.symtab))
  IN  /\ Len(obj.symbols) = Len(defs)
      /\ obj.num_symbols = Len(defs)
      /\ \A k \in 1 .. Len(defs) : obj.symbols[k].name = defs[k].st_name

FirstMatchReturned ==
  last.op = "objsym" =>
    LET recs == handles[last.h].symbols
        hits == {k \in 1 .. Len(recs) : recs[k].name = last.name}
    IN  IF hits = {} THEN last.addr = NULL
        ELSE \E k \in hits : /\ \A j \in hits : k <= j
                             /\ last.addr = recs[k].addr

\* C3: the index holds one record per function or data-object symbol of the
\* symbol table, in table order; objsym returns the address of the first
\* record whose name equals the name asked for, NULL when there is none; and
\* a call of objsym changes neither the index, the arena nor the error slot.
C3_FirstMatch ==
  /\ [](\A h \in 1 .. Len(handles) : IndexMatchesSymtab(handles[h]))
  /\ []FirstMatchReturned
  /\ [][last'.op = "objsym" => UNCHANGED <<handles, code, code_used, obj_error, oob, heap>>]_vars

\* objsym was asked for a name that two records carry, with different
\* addresses, and answered
C3_Witness ==
  /\ last.op = "objsym"
  /\ last.addr # NULL
  /\ \E j, k \in 1 .. Len(handles[last.h].symbols) :
       /\ j < k
       /\ handles[last.h].symbols[j].name = last.name
       /\ handles[last.h].symbols[k].name = last.name
       /\ handles[last.h].symbols[j].addr # handles[last.h].symbols[k].addr

\* C4: when objopen has returned NULL, the string objerror returns is not
\* empty, also after the first failure of the process.
C4_ErrorSetOnFailure ==
  (~crashed /\ last.op = "objopen" /\ last.h = 0) => obj_error # ""

\* C5: every live malloc block belongs to a handle that was returned and not
\* yet closed.
C5_NoLeak ==
  ~crashed =>
    \A b \in heap :
      \E h \in 1 .. Len(handles) : handles[h].live /\ handles[h].call = b[1]

\* C6: the message in the error slot fits its 256 bytes, terminator included,
\* and no byte is written behind the slot.
C6_ErrorBounded == Len(obj_error) + 1 <= ErrSize /\ oob = 0

\* C7: the base recorded in the placement map for every allocatable section
\* is a multiple of 16.
C7_SectionsAligned ==
  \A i \in 1 .. Len(ld.addrs) : ld.addrs[i] # NULL => ld.addrs[i] % SecAlign = 0

\* C8: the bump offset never exceeds the capacity of the mapping.
C8_UsedWithinCapacity == code_used <= CodeSize

\* C9: when load_object reads symbol names, the string table it reads them
\* from is the section whose index is the symbol table's link field.
C9_StrtabIsLink ==
  (ld.ran /\ ld.symtab # -1 /\ ld.names_read) => ld.strtab = ld.strtab_index

\* C10: an ABS64 relocation leaves at its target old + S + addend mod 2^64,
\* the addend being the record's 64-bit addend in an explicit-addend table and
\* 0 in an implicit-addend table.
C10_Abs64FullAddend ==
  \A k \in 1 .. Len(ld.patches) :
    LET p == ld.patches[k]
    IN  p.r_type = R_64 =>
          p.val = Add64(p.rel.word,
                        Add64(p.dest, IF p.has_addend THEN p.rel.r_addend ELSE Zero64))

====
